---- MODULE Spec2Model ----
(***************************************************************************)
(* Tank survival: the level lifecycle, combat and scavenge resolution of   *)
(* the five prototypes ("tank survival v1.py" .. "tank survival v5.py").   *)
(*                                                                         *)
(* v1 and v2 are the pygame prototypes, v3..v5 the Tkinter ones.  The      *)
(* variable ver says which prototype is running; it never changes.         *)
(*                                                                         *)
(* Quantities are whole numbers.  Chances are kept in hundredths (0.75 is  *)
(* 75): every constant of the chance formula is a multiple of 0.01.        *)
(* Sprites are kept as a count per outside view and kind; their pixel      *)
(* positions only decide what a click lands on, which is an input of the   *)
(* click actions.  Of the views only the driver and engine stations and    *)
(* the three outside views are kept: the other stations carry no command.  *)
(* Unless a run is timed, time is abstract: a timer that is pending may     *)
(* fire at any moment, and a frame of the pygame loops may or may not      *)
(* reach the breakdown deadline.                                           *)
(* The starting amounts are the tunables at the top of each file, scaled   *)
(* down so that empty counters are reached.                                *)
(***************************************************************************)
EXTENDS Integers, Sequences, FiniteSets, TLC

VARIABLES
    ver,            \* which prototype runs (1..5)
    fuel, shells, guns, crew, parts, ammo,      \* the ledger
    driving,        \* v1 state.moving, v2..v5 self.driving
    level_active,   \* v1 state.in_level, v2 level_active, v3..v5 level.active
    engine_broken,
    out_of_fuel,    \* v3..v5 only
    level,          \* v1 LevelPool, v3..v5 LevelState counters
    sprites,        \* per outside view: live sprites by kind (v2: uncollected items, alive zombies)
    view,           \* current view
    fuel_tick_after_id, breakdown_after_id,     \* v3..v5 stored timer ids (0 is None)
    pending,        \* v3..v5 callbacks scheduled with after(): id -> handler
    game_over,      \* v2 self.game_over; v3..v5: the window was destroyed
    scavenge_mode,  \* v2 scavenge rows shown
    msg,            \* message shown by the last handler (v1: the open popup)
    scav,           \* locals of the scavenge the last step resolved
    levels,         \* number of levels started so far
    clock,          \* milliseconds run so far (v1 now_ms()), counted when the run is timed
    breakdown_at,   \* the millisecond the breakdown is due at (v1 breakdown_at_ms); 0
                    \* leaves the deadline open
    fuel_accum      \* v2 self.fuel_accum, in thousandths of a unit; kept in timed runs

vars == <<ver, fuel, shells, guns, crew, parts, ammo, driving, level_active,
          engine_broken, out_of_fuel, level, sprites, view,
          fuel_tick_after_id, breakdown_after_id, pending, game_over,
          scavenge_mode, msg, scav, levels, clock, breakdown_at, fuel_accum>>

ledger == <<fuel, shells, guns, crew, parts, ammo>>
timers == <<fuel_tick_after_id, breakdown_after_id, pending>>
flags  == <<driving, level_active, engine_broken, out_of_fuel>>

(***************************************************************************)
(* Bounds of the model                                                     *)
(***************************************************************************)
StartFuel   == 2     \* STARTING_FUEL, scaled down
StartShells == 0     \* STARTING_SHELLS
StartGuns   == 1     \* STARTING_GUNS
StartCrew   == 2     \* STARTING_CREW
StartAmmo   == 0     \* STARTING_AMMO (v4, v5)
CapItems    == 1     \* each item draw of a level is explored up to this many
CapZombies  == 1     \* the zombie draw of a level is explored up to this many
YieldSpread == 0     \* a pickup yields its minimum .. minimum + YieldSpread
ItemSpread  == 1     \* item sprites are placed in the first ItemSpread outside views
MaxLevels   == 1     \* levels started in one run
MaxFrameBurn == 1    \* seconds the longest frame of the pygame loops lasts, a unit of v1 fuel each
LootItems   == 2     \* SpecScavenge: items of each kind lying in the level
SpareParts  == 2     \* SpecRepair: parts in the ledger when the level starts, at most
ScenarioTicks == 250 \* SpecClock: one-second ticks of a timed run

(***************************************************************************)
(* Program constants                                                       *)
(***************************************************************************)
STARTING_FUEL == 200
FUEL_CONSUMPTION_PER_SEC == 1
FUEL_CONSUMED_PER_SEC == 2
BREAKDOWN_MIN_SEC == 30
BREAKDOWN_MAX_SEC == 180
FUEL_CAN_MIN == 10
FUEL_CAN_MAX == 100
AMMO_PER_BOX == 100
MG_AMMO_COST == 33
SHELLS_PER_SHOT == 1
ZOMBIE_PENALTY_PER == 4
ZOMBIE_PENALTY_V2 == 6
ZOMBIE_PENALTY_PER_ZOMBIE == 5
GUN_BONUS == 15
GUN_BONUS_V2 == 18
CHANCE_MIN == 5
CHANCE_MAX == 95
ZOMBIES_MAX == 8

Versions == {1, 2, 3, 4, 5}
Tk(v) == v \in {3, 4, 5}

ViewOrder == <<"OUT_DRIVER", "OUT_LEFT", "OUT_RIGHT">>
OutViews == {ViewOrder[i] : i \in 1..3}
\* the views that carry a command: the engine station of v3 and v4 and the driver's
\* outside view of v1 and v3 carry none
Views(v) ==
    CASE v = 1 -> {"DRIVER", "ENGINE", "OUT_LEFT", "OUT_RIGHT"}
      [] v = 3 -> {"DRIVER", "OUT_LEFT", "OUT_RIGHT"}
      [] v = 4 -> {"DRIVER"} \cup OutViews
      [] OTHER -> {"DRIVER", "ENGINE"} \cup OutViews
Kinds == {"part", "fuel", "shell", "zombie", "ammo"}
ItemKinds == {"part", "shell", "fuel", "ammo"}

Min(a, b) == IF a < b THEN a ELSE b
Max(a, b) == IF a > b THEN a ELSE b

NoSprites == [v \in OutViews |-> [k \in Kinds |-> 0]]
NoLevel == [reason |-> "", parts |-> 0, fuel_cans |-> 0, shells |-> 0,
            zombies |-> 0, ammo_boxes |-> 0]
NoGot == [k \in ItemKinds |-> 0]
NoScav == [done |-> FALSE, approach |-> "", give_gun |-> FALSE, zombies |-> 0, chance |-> 0,
           gun_committed |-> FALSE, survived |-> FALSE]

\* the identity, that a clamp is compared against
Unclamped(x, lo, hi) == x

\* clamp(x, a, b) of v1 and v2, _clamp(x, lo, hi) of v3..v5
_clamp(x, lo, hi) == Max(lo, Min(hi, x))

\* _count_remaining_items()[kind]; v2: the uncollected items of a kind
_count_remaining_items(sp, kind) ==
    sp["OUT_DRIVER"][kind] + sp["OUT_LEFT"][kind] + sp["OUT_RIGHT"][kind]

\* a removal that only looks into the first outside view
RemoveFirstViewOnly(sp, kind, n) ==
    [sp EXCEPT !["OUT_DRIVER"][kind] = @ - Min(n, @)]

\* _remove_items_from_map(kind, n): OUT_DRIVER first, then OUT_LEFT, OUT_RIGHT
_remove_items_from_map(sp, kind, n) ==
    LET d == Min(n, sp["OUT_DRIVER"][kind])
        l == Min(n - d, sp["OUT_LEFT"][kind])
        r == Min(n - d - l, sp["OUT_RIGHT"][kind])
    IN [sp EXCEPT !["OUT_DRIVER"][kind] = @ - d,
                  !["OUT_LEFT"][kind] = @ - l,
                  !["OUT_RIGHT"][kind] = @ - r]

(***************************************************************************)
(* Random draws                                                            *)
(***************************************************************************)
\* random.randint(lo, hi), explored up to the cap
randint(lo, hi, cap) == lo .. Max(lo, Min(hi, cap))

\* the ways n sprites fall into the first k outside views (random.choice per sprite)
Place(n, k) ==
    {f \in [OutViews -> 0..n] :
        /\ f["OUT_DRIVER"] + f["OUT_LEFT"] + f["OUT_RIGHT"] = n
        /\ \A i \in 1..3 : i > k => f[ViewOrder[i]] = 0}

\* a parts draw without the floor of one
DrawPartsUnfloored(v) == randint(0, 3, CapItems)

\* the parts of a level: v1 randint(PARTS_MIN, PARTS_MAX), v2 MIN_PARTS_PER_LEVEL
\* + randint(0, EXTRA_PARTS_MAX), v3..v5 max(1, randint(1, 3))
DrawParts(v) ==
    CASE v = 1 -> randint(1, 2, CapItems)
      [] v = 2 -> {1 + n : n \in randint(0, 2, CapItems - 1)}
      [] OTHER -> {Max(1, n) : n \in randint(1, 3, CapItems)}

DrawFuelCans(v) ==
    CASE v = 1 -> randint(1, 5, CapItems)
      [] v = 2 -> randint(1, 4, CapItems)
      [] v = 3 -> randint(0, 3, CapItems)
      [] OTHER -> randint(1, 3, CapItems)

DrawShells(v) == IF v = 1 THEN randint(0, 4, CapItems) ELSE randint(0, 3, CapItems)

\* the zombie draw of a level: v1 randint(ZOMBIES_MIN, ZOMBIES_MAX), v2 the same
\* with its own constants, v3 randint(0, 6), v4 and v5 randint(1, 6)
ZombiesMin(v) == IF v \in {2, 3} THEN 0 ELSE 1
ZombiesMax(v) == IF v = 1 THEN ZOMBIES_MAX ELSE 6

DrawZombies(v) == randint(ZombiesMin(v), ZombiesMax(v), CapZombies)

DrawAmmoBoxes(v) == IF v \in {4, 5} THEN randint(1, 2, CapItems) ELSE {0}

\* v1 gen_outside_sprites_for_view, called for each outside view: every view shows
\* pool.zombies zombies and, as markers of what lies about, up to 4 fuel cans, 2
\* parts and 3 shells
gen_outside_sprites_for_view(pool) ==
    [v \in OutViews |->
        [k \in Kinds |->
            CASE k = "zombie" -> pool.zombies
              [] k = "fuel"   -> Min(pool.fuel_cans, 4)
              [] k = "part"   -> Min(pool.parts, 2)
              [] k = "shell"  -> Min(pool.shells, 3)
              [] OTHER        -> 0]]

\* a populate that leaves the old sprites where they are
PopulateOnTop(pp, pf, ps, pz, pa) ==
    [v \in OutViews |->
        [k \in Kinds |->
            sprites[v][k] + (CASE k = "part"   -> pp[v]
                               [] k = "fuel"   -> pf[v]
                               [] k = "shell"  -> ps[v]
                               [] k = "zombie" -> pz[v]
                               [] k = "ammo"   -> pa[v])]]

\* v3..v5 _populate_outside_sprites(), v2 the placing loops of _generate_level_spawns
_populate_outside_sprites(pp, pf, ps, pz, pa) ==
    [v \in OutViews |->
        [k \in Kinds |->
            CASE k = "part"   -> pp[v]
              [] k = "fuel"   -> pf[v]
              [] k = "shell"  -> ps[v]
              [] k = "zombie" -> pz[v]
              [] k = "ammo"   -> pa[v]]]

\* the population of a new level: v1 the draws of start_new_level, v2
\* _generate_level_spawns, v3..v5 the draws of _start_level
_generate_level_spawns(reason) ==
    \E np \in DrawParts(ver), nf \in DrawFuelCans(ver), ns \in DrawShells(ver),
       nz \in DrawZombies(ver), na \in DrawAmmoBoxes(ver) :
        /\ level' = IF ver = 2 THEN NoLevel
                    ELSE [reason |-> reason, parts |-> np, fuel_cans |-> nf,
                          shells |-> ns, zombies |-> nz, ammo_boxes |-> na]
        /\ IF ver = 1
           THEN sprites' = gen_outside_sprites_for_view(level')
           ELSE \E pp \in Place(np, ItemSpread), pf \in Place(nf, ItemSpread),
                   ps \in Place(ns, ItemSpread), pz \in Place(nz, 3),
                   pa \in Place(na, ItemSpread) :
                    sprites' = _populate_outside_sprites(pp, pf, ps, pz, pa)

(***************************************************************************)
(* What stops the tank                                                     *)
(***************************************************************************)
Causes == {"breakdown", "fuel", "stop"}

\* the reason string each prototype passes to its level start
Reason(v, cause) ==
    CASE v = 1 -> (CASE cause = "breakdown" -> "Random breakdown"
                     [] cause = "fuel" -> "Fuel depleted"
                     [] OTHER -> "Manual STOP")
      [] v = 2 -> (CASE cause = "breakdown" -> "breakdown"
                     [] cause = "fuel" -> "fuel"
                     [] OTHER -> "manual_stop")
      [] OTHER -> (CASE cause = "breakdown" -> "Engine breakdown"
                     [] cause = "fuel" -> "Out of fuel"
                     [] OTHER -> "Manual stop")

\* a tick that looks at the breakdown deadline before the fuel
BreakdownFirst(empty, due) ==
    IF due THEN "breakdown" ELSE IF empty THEN "fuel" ELSE ""

\* what a tick of the pygame loops stops the tank for: the fuel check comes first,
\* and the level it starts ends the tick; "" when the tank drives on
TickCause(empty, due) ==
    IF empty THEN "fuel" ELSE IF due THEN "breakdown" ELSE ""

(***************************************************************************)
(* Time, in milliseconds.  A run is timed when it starts with a breakdown  *)
(* deadline drawn: then the clock runs with every tick and frame, the      *)
(* deadline decides when the breakdown is due, and v2 keeps its fuel       *)
(* accumulator.  Otherwise the deadline is open, a breakdown may come with *)
(* any tick, and the accumulator of v2 may stand anywhere.                 *)
(***************************************************************************)
Timed == breakdown_at # 0

\* the period of the Tkinter fuel timer, after(1000, self._fuel_tick): a second
TickMs == 1000

\* the end of a timed run
Horizon == TickMs * ScenarioTicks

\* how far away a breakdown can be when driving starts: v1, v3..v5
\* random.randint(BREAKDOWN_MIN_SEC, BREAKDOWN_MAX_SEC) seconds; v2 random.uniform
\* over the same window, met by the first one-second tick not before it
BreakdownDelays == {TickMs * sec : sec \in BREAKDOWN_MIN_SEC .. BREAKDOWN_MAX_SEC}

\* the deadline drawn when driving resumes
NewDeadline == IF Timed THEN {clock + d : d \in BreakdownDelays} ELSE {0}

\* a tick that burns nothing
TickBurnsNothing(v) == 0

\* the fuel a second of driving is set to burn: v1 FUEL_CONSUMED_PER_SECOND, v2
\* FUEL_CONSUMED_PER_SEC, v3..v5 FUEL_CONSUMPTION_PER_SEC
TickBurn(v) == IF v = 2 THEN FUEL_CONSUMED_PER_SEC ELSE FUEL_CONSUMPTION_PER_SEC

\* the lengths of a frame, dt of clock.tick(FPS): a sixtieth of a second, which
\* pygame gives as 16 or 17 ms, or a frame that hangs for whole seconds
FrameLengths == {16, 17} \cup {TickMs * k : k \in 1 .. MaxFrameBurn}

\* v1: the fuel a frame of dt ms burns, int(FUEL_CONSUMED_PER_SECOND * dt + 0.999)
FrameBurn(dt) == (TickBurn(1) * dt + 999) \div 1000

\* v2: the whole units that leave fuel_accum in a frame of dt ms; with the
\* accumulator standing anywhere, what FUEL_CONSUMED_PER_SEC * dt rounds to
UnitsLeaving(dt) ==
    IF Timed THEN {(fuel_accum + TickBurn(2) * dt) \div 1000}
    ELSE {(TickBurn(2) * dt) \div 1000, (TickBurn(2) * dt + 999) \div 1000}

\* a timed frame or tick of dt ms: it ends within the run, and the deadline says
\* whether the breakdown is due at its end
TimedTick(dt, due) ==
    Timed => /\ clock + dt <= Horizon
             /\ due = (clock + dt >= breakdown_at)

(***************************************************************************)
(* Tkinter timers: after() and after_cancel()                              *)
(***************************************************************************)
TimerIds == {1, 2, 3}
NoPending == [i \in TimerIds |-> ""]

\* after_cancel(id); cancelling None or an id that already ran does nothing
after_cancel(p, id) == IF id = 0 THEN p ELSE [p EXCEPT ![id] = ""]

FreeIds(p) == {i \in TimerIds : p[i] = ""}
\* the id a new after() call returns
NewId(p) == CHOOSE i \in FreeIds(p) : \A j \in FreeIds(p) : i <= j

\* a cancel that leaves every timer scheduled
CancelNothing(p) == p

\* _cancel_timers()
_cancel_timers(p) == after_cancel(after_cancel(p, fuel_tick_after_id), breakdown_after_id)

(***************************************************************************)
(* v3..v5: levels and driving                                              *)
(***************************************************************************)
\* _start_level(reason); p is the timer table at the call
_start_level(p, reason) ==
    /\ levels < MaxLevels
    /\ levels' = levels + 1
    /\ pending' = _cancel_timers(p)
    /\ fuel_tick_after_id' = 0
    /\ breakdown_after_id' = 0
    /\ driving' = FALSE
    /\ level_active' = TRUE
    /\ engine_broken' = (reason = "Engine breakdown")
    /\ out_of_fuel' = (reason = "Out of fuel")
    /\ _generate_level_spawns(reason)

\* timers set and the tank driving, with the level left as it is
DriveWithoutLeavingLevel(p) ==
    LET p0 == _cancel_timers(p)
        f  == NewId(p0)
        p1 == [p0 EXCEPT ![f] = "fuel"]
        b  == NewId(p1)
    IN /\ driving' = TRUE
       /\ UNCHANGED <<level_active, engine_broken, out_of_fuel>>
       /\ fuel_tick_after_id' = f
       /\ breakdown_after_id' = b
       /\ pending' = [p1 EXCEPT ![b] = "breakdown"]
       /\ breakdown_at' \in NewDeadline

\* _start_timers_for_driving(); p is the timer table at the call
_start_timers_for_driving(p) ==
    LET p0 == _cancel_timers(p)
        f  == NewId(p0)
        p1 == [p0 EXCEPT ![f] = "fuel"]
        b  == NewId(p1)
    IN /\ driving' = TRUE
       /\ level_active' = FALSE
       /\ engine_broken' = FALSE
       /\ out_of_fuel' = FALSE
       /\ fuel_tick_after_id' = f
       /\ breakdown_after_id' = b
       /\ pending' = [p1 EXCEPT ![b] = "breakdown"]
       /\ breakdown_at' \in NewDeadline

\* _fuel_tick(), run by the timer i
_fuel_tick(i) ==
    LET p == [pending EXCEPT ![i] = ""] IN
    /\ Tk(ver) /\ ~game_over
    /\ pending[i] = "fuel"
    /\ driving => levels < MaxLevels
    \* timed: the breakdown timer, when due earlier, has run before this tick
    /\ Timed => /\ clock + TickMs <= Horizon
                /\ \A j \in TimerIds : pending[j] = "breakdown" => breakdown_at >= clock + TickMs
    /\ clock' = (IF Timed THEN clock + TickMs ELSE clock)
    /\ msg' = "" /\ scav' = NoScav
    /\ UNCHANGED <<ver, fuel_accum, breakdown_at, shells, guns, crew, parts, ammo, view, game_over, scavenge_mode>>
    /\ IF ~driving
       THEN /\ pending' = p
            /\ UNCHANGED <<fuel, flags, level, sprites, fuel_tick_after_id,
                           breakdown_after_id, levels>>
       ELSE IF fuel - TickBurn(ver) <= 0
            THEN /\ fuel' = 0
                 /\ _start_level(p, "Out of fuel")      \* _trigger_out_of_fuel_level()
            ELSE /\ fuel' = fuel - TickBurn(ver)
                 /\ fuel_tick_after_id' = NewId(p)
                 /\ pending' = [p EXCEPT ![NewId(p)] = "fuel"]
                 /\ UNCHANGED <<flags, level, sprites, breakdown_after_id, levels>>

\* _trigger_breakdown_level(), run by the timer i
_trigger_breakdown_level(i) ==
    LET p == [pending EXCEPT ![i] = ""] IN
    /\ Tk(ver) /\ ~game_over
    /\ pending[i] = "breakdown"
    \* timed: the timer runs in its second, before or after that second's fuel tick
    /\ Timed => breakdown_at \in {clock, clock + TickMs}
    /\ msg' = "" /\ scav' = NoScav
    /\ UNCHANGED <<ver, fuel_accum, clock, breakdown_at, ledger, view, game_over, scavenge_mode>>
    /\ IF ~driving
       THEN /\ pending' = p
            /\ UNCHANGED <<flags, level, sprites, fuel_tick_after_id,
                           breakdown_after_id, levels>>
       ELSE _start_level(p, "Engine breakdown")

\* v5 packs the driver controls frame only in the DRIVER view
DriverControlsShown == ver = 5 => view = "DRIVER"

\* a stop that starts a level wherever the tank is
StopAnywhere ==
    /\ Tk(ver) /\ ~game_over /\ DriverControlsShown
    /\ msg' = "" /\ scav' = NoScav
    /\ UNCHANGED <<ver, fuel_accum, clock, breakdown_at, ledger, view, game_over, scavenge_mode>>
    /\ _start_level(pending, "Manual stop")

\* _driver_stop(); v3, v4 through _trigger_manual_stop_level()
_driver_stop ==
    /\ Tk(ver) /\ ~game_over /\ DriverControlsShown
    /\ msg' = "" /\ scav' = NoScav
    /\ UNCHANGED <<ver, fuel_accum, clock, breakdown_at, ledger, view, game_over, scavenge_mode>>
    /\ IF ~driving
       THEN UNCHANGED <<flags, level, sprites, timers, levels>>
       ELSE _start_level(pending, "Manual stop")

\* a fuel check that finds every tank filled
TankNeverEmpty(f) == FALSE

\* the fuel check of a start: fuel <= 0 in every prototype
TankEmpty(f) == f <= 0

\* a start check that forgets the engine
StartRefusalWithoutEngine ==
    IF out_of_fuel /\ fuel <= 0 THEN "No fuel" ELSE ""

\* a start check that forgets the fuel
StartRefusalWithoutFuel ==
    IF engine_broken THEN "Engine broken" ELSE ""

\* the checks of _driver_start(): "" when the start is accepted
DriverStartRefusal ==
    IF engine_broken THEN "Engine broken"
    ELSE IF out_of_fuel /\ TankEmpty(fuel) THEN "No fuel"
    ELSE ""

\* _driver_start()
_driver_start ==
    /\ Tk(ver) /\ ~game_over /\ DriverControlsShown
    /\ scav' = NoScav
    /\ UNCHANGED <<ver, fuel_accum, clock, ledger, game_over, scavenge_mode, level, sprites, levels>>
    /\ IF driving
       THEN /\ msg' = ""
            /\ UNCHANGED <<flags, view, timers, breakdown_at>>
       ELSE IF DriverStartRefusal # ""
            THEN /\ msg' = DriverStartRefusal
                 /\ UNCHANGED <<flags, view, timers, breakdown_at>>
            ELSE /\ msg' = ""
                 /\ _start_timers_for_driving(pending)
                 /\ view' = "DRIVER"

(***************************************************************************)
(* v3..v5: engine repair                                                   *)
(***************************************************************************)
\* a parts check that lets every repair through
PartsNeverShort(p) == FALSE

\* the parts check of a repair: parts <= 0 in every prototype
NotEnoughParts(p) == p <= 0

\* _update_fix_engine_visibility(): v5 packs the button only in this case
FixEngineShown ==
    ver = 5 => (~driving /\ engine_broken /\ view = "ENGINE")

\* a repair that drives off by itself
FixAndDrive ==
    /\ Tk(ver) /\ ~game_over /\ FixEngineShown
    /\ scav' = NoScav
    /\ UNCHANGED <<ver, fuel_accum, clock, fuel, shells, guns, crew, ammo, level, sprites, view,
                   game_over, scavenge_mode, levels>>
    /\ IF ~level_active \/ ~engine_broken \/ NotEnoughParts(parts)
       THEN /\ msg' = "No repair"
            /\ UNCHANGED <<parts, flags, timers, breakdown_at>>
       ELSE /\ parts' = parts - 1
            /\ msg' = "Engine fixed"
            /\ _start_timers_for_driving(pending)

\* _fix_engine()
_fix_engine ==
    /\ Tk(ver) /\ ~game_over /\ FixEngineShown
    /\ scav' = NoScav
    /\ UNCHANGED <<ver, fuel_accum, clock, breakdown_at, fuel, shells, guns, crew, ammo, driving, level_active,
                   out_of_fuel, level, sprites, view, timers, game_over,
                   scavenge_mode, levels>>
    /\ IF ~level_active
       THEN msg' = "No repair needed: driving" /\ UNCHANGED <<parts, engine_broken>>
       ELSE IF ~engine_broken
            THEN msg' = "No repair needed" /\ UNCHANGED <<parts, engine_broken>>
            ELSE IF NotEnoughParts(parts)
                 THEN msg' = "Not enough parts" /\ UNCHANGED <<parts, engine_broken>>
                 ELSE /\ parts' = parts - 1
                      /\ engine_broken' = FALSE
                      /\ msg' = "Engine fixed"

(***************************************************************************)
(* v3..v5: clicking the canvas (cannon / machine gun)                      *)
(***************************************************************************)
\* a shells check that lets every shot through
OutOfShellsNever(v, s) == FALSE

\* the cannon's check: v1, v3..v5 shells <= 0, v2 shells < SHELLS_PER_SHOT
OutOfShells(v, s) == IF v = 2 THEN s < SHELLS_PER_SHOT ELSE s <= 0

\* an ammo check that lets every burst through
OutOfAmmoNever(a) == FALSE

\* the machine gun's check
OutOfAmmo(a) == a < MG_AMMO_COST

\* a shot that costs nothing
FreeShot(w) == 0

\* what a kill takes from the ledger: one shell (v2 SHELLS_PER_SHOT) for the cannon,
\* MG_AMMO_COST ammo for the machine gun
WeaponCost(w) == IF w = "cannon" THEN SHELLS_PER_SHOT ELSE MG_AMMO_COST

\* the views _on_canvas_click accepts
ShootViews(v) == IF v = 3 THEN {"OUT_LEFT", "OUT_RIGHT"} ELSE OutViews
\* the mouse buttons bound to the canvas
MouseButtons(v) == IF v = 3 THEN {1} ELSE {1, 3}

\* which weapon a click fires: v3 cannon only; v4 by button; v5 MG in OUT_DRIVER
Weapon(v, vw, num) ==
    IF v = 3 THEN "cannon"
    ELSE IF v = 5 /\ vw = "OUT_DRIVER" THEN "mg"
    ELSE IF num = 1 THEN "cannon" ELSE "mg"

\* _on_canvas_click(event): onZombie says whether the click lands on a zombie
\* sprite of the current view, num is event.num
_on_canvas_click(onZombie, num) ==
    /\ Tk(ver) /\ ~game_over
    /\ num \in MouseButtons(ver)
    /\ onZombie => (view \in OutViews /\ sprites[view]["zombie"] > 0)
    /\ scav' = NoScav
    /\ UNCHANGED <<ver, fuel_accum, clock, breakdown_at, fuel, guns, crew, parts, flags, level, view, timers,
                   game_over, scavenge_mode, levels>>
    /\ IF ~level_active \/ view \notin ShootViews(ver) \/ ~onZombie
       THEN msg' = "" /\ UNCHANGED <<shells, ammo, sprites>>
       ELSE IF Weapon(ver, view, num) = "cannon"
            THEN IF OutOfShells(ver, shells)
                 THEN msg' = "No shells" /\ UNCHANGED <<shells, ammo, sprites>>
                 ELSE /\ shells' = shells - WeaponCost("cannon")
                      /\ sprites' = [sprites EXCEPT ![view]["zombie"] = @ - 1]
                      /\ msg' = "Fired"
                      /\ UNCHANGED ammo
            ELSE IF OutOfAmmo(ammo)
                 THEN msg' = "Not enough ammo" /\ UNCHANGED <<shells, ammo, sprites>>
                 ELSE /\ ammo' = ammo - WeaponCost("mg")
                      /\ sprites' = [sprites EXCEPT ![view]["zombie"] = @ - 1]
                      /\ msg' = "Fired"
                      /\ UNCHANGED shells

(***************************************************************************)
(* Scavenging: the risk table, the chance and the loot                     *)
(***************************************************************************)
Approaches == {"quick", "moderate", "greedy"}
\* base return chance, in hundredths
BaseChance(a) == CASE a = "quick" -> 75 [] a = "moderate" -> 50 [] a = "greedy" -> 33
\* the loot fraction (max_frac, loot_frac, frac) as numerator / denominator
FracNum(a) == CASE a = "quick" -> 1 [] a = "moderate" -> 1 [] a = "greedy" -> 1
FracDen(a) == CASE a = "quick" -> 3 [] a = "moderate" -> 2 [] a = "greedy" -> 1

\* a scavenger who may carry off everything
TakeAll(v, total, a) == total

\* the most items a survivor may bring back from total: v1 max(1, math.ceil(total *
\* loot_frac)), v2 max(1, math.floor(len(remaining_items) * frac))
MaxTake(v, total, a) ==
    IF v = 2 THEN Max(1, (total * FracNum(a)) \div FracDen(a))
    ELSE Max(1, (total * FracNum(a) + FracDen(a) - 1) \div FracDen(a))

\* the penalty of one zombie: v1 ZOMBIE_PENALTY_PER, v2 0.06, v3..v5
\* ZOMBIE_PENALTY_PER_ZOMBIE
ZombiePenalty(v) ==
    CASE v = 1 -> ZOMBIE_PENALTY_PER
      [] v = 2 -> ZOMBIE_PENALTY_V2
      [] OTHER -> ZOMBIE_PENALTY_PER_ZOMBIE

\* a bonus granted on the request alone
GunBonusOnRequest(v, give_gun, g) ==
    IF give_gun THEN (IF v = 2 THEN GUN_BONUS_V2 ELSE GUN_BONUS) ELSE 0

\* the bonus of a gun: only when one is asked for and one is there
GunBonus(v, give_gun, g) ==
    IF give_gun /\ g > 0 THEN (IF v = 2 THEN GUN_BONUS_V2 ELSE GUN_BONUS) ELSE 0

\* the return chance of a scavenge
Chance(v, approach, zombies, give_gun, g) ==
    _clamp(BaseChance(approach) - zombies * ZombiePenalty(v) + GunBonus(v, give_gun, g),
           CHANCE_MIN, CHANCE_MAX)

\* a scavenger who never takes the gun along
KeepGun(give_gun, g) == g

\* the guns left in the tank while an armed scavenger is out
CommitGun(give_gun, g) == IF give_gun /\ g > 0 THEN g - 1 ELSE g

\* random.random() < chance: the outcomes a chance allows
Survivals(chance) == {b \in BOOLEAN : (b => chance > 0) /\ (~b => chance < 100)}

\* the fuel a number of cans can yield: each random.randint(FUEL_CAN_MIN, FUEL_CAN_MAX)
FuelYields(cans) ==
    (cans * FUEL_CAN_MIN) .. (cans * Min(FUEL_CAN_MAX, FUEL_CAN_MIN + YieldSpread))

\* v2: the shells a number of shell pickups can yield: each holds the amount
\* random.randint(1, 3) gave it when it was placed
ShellYields(n) == n .. (3 * n)

SumGot(g) == g["part"] + g["shell"] + g["fuel"] + g["ammo"]

ScavKinds(v) == IF v \in {4, 5} THEN ItemKinds ELSE {"part", "shell", "fuel"}

\* the items left to scavenge, by kind
Avail(v, sp) == [k \in ItemKinds |-> IF k \in ScavKinds(v) THEN _count_remaining_items(sp, k) ELSE 0]

\* v3..v5: frac = random.random() * max_frac lies in [0, max_frac); a level holds at
\* most three items of a kind and int(avail * frac) changes only at multiples of
\* 1/avail, so frac ranges over the sixths below max_frac
Fracs(a) == 0 .. ((6 * FracNum(a)) \div FracDen(a) - 1)

\* v3..v5: got_parts, got_shells, got_fuel_cans, got_ammo_boxes for a frac of n/6
GotByFrac(v, sp, n) == [k \in ItemKinds |-> (Avail(v, sp)[k] * n) \div 6]

\* v3..v5: with the "at least something" nudge: one item of a kind that exists
GotOutcomes(v, sp, n) ==
    LET g == GotByFrac(v, sp, n)
        choices == {k \in ItemKinds : Avail(v, sp)[k] > 0}
    IN IF SumGot(g) = 0 /\ choices # {}
       THEN {[k \in ItemKinds |-> IF k = pick THEN 1 ELSE 0] : pick \in choices}
       ELSE {g}

\* v3..v5: what a surviving scavenger may bring back
GotSet(v, sp, a) == UNION {GotOutcomes(v, sp, n) : n \in Fracs(a)}

\* v3..v5: the four _remove_items_from_map calls
RemoveGot(sp, g) ==
    _remove_items_from_map(
      _remove_items_from_map(
        _remove_items_from_map(
          _remove_items_from_map(sp, "part", g["part"]),
          "shell", g["shell"]),
        "fuel", g["fuel"]),
      "ammo", g["ammo"])

ScavRecord(approach, give_gun, zombies, chance, committed, survived) ==
    [done |-> TRUE, approach |-> approach, give_gun |-> give_gun, zombies |-> zombies, chance |-> chance,
     gun_committed |-> committed, survived |-> survived]

\* v3..v5 _resolve_scavenge(dlg, approach, give_gun)
_resolve_scavenge(approach, give_gun) ==
    LET chance == Chance(ver, approach, level.zombies, give_gun, guns)
        gun_committed == give_gun /\ guns > 0
        out == CommitGun(give_gun, guns)
    IN \E survived \in Survivals(chance) :
        IF ~survived
           THEN /\ crew' = crew - 1
                /\ scav' = ScavRecord(approach, give_gun, level.zombies, chance, gun_committed, FALSE)
                /\ guns' = out
                /\ msg' = IF crew - 1 <= 0 THEN "Game Over" ELSE "Lost"
                /\ game_over' = (crew - 1 <= 0)        \* self.destroy()
                /\ pending' = IF crew - 1 <= 0 THEN NoPending ELSE pending
                /\ UNCHANGED <<fuel, shells, parts, ammo, sprites>>
           ELSE \E got \in GotSet(ver, sprites, approach) :
                \E fuel_gained \in FuelYields(got["fuel"]) :
                /\ guns' = out + (IF gun_committed THEN 1 ELSE 0)
                /\ parts' = parts + got["part"]
                /\ shells' = shells + got["shell"]
                /\ fuel' = fuel + fuel_gained
                /\ ammo' = ammo + got["ammo"] * AMMO_PER_BOX
                /\ sprites' = RemoveGot(sprites, got)
                /\ msg' = "Returned"
                /\ scav' = ScavRecord(approach, give_gun, level.zombies, chance, gun_committed, TRUE)
                /\ UNCHANGED <<crew, game_over, pending>>

\* v3..v5 _open_scavenge_dialog(), then Send in the dialog (the dialog holds the
\* grab, and no timer is pending in a level, so nothing runs in between)
_open_scavenge_dialog(approach, give_gun) ==
    /\ Tk(ver) /\ ~game_over
    /\ UNCHANGED <<ver, fuel_accum, clock, breakdown_at, flags, level, view, fuel_tick_after_id, breakdown_after_id,
                   scavenge_mode, levels>>
    /\ IF ~level_active
       THEN /\ msg' = "Cannot scavenge" /\ scav' = NoScav
            /\ UNCHANGED <<ledger, sprites, game_over, pending>>
       ELSE IF crew <= 0
            THEN /\ msg' = "No crew" /\ scav' = NoScav
                 /\ UNCHANGED <<ledger, sprites, game_over, pending>>
            ELSE _resolve_scavenge(approach, give_gun)

(***************************************************************************)
(* v1: the pygame prototype with blocking popups                           *)
(***************************************************************************)
\* v1 start_new_level(reason)
start_new_level(reason) ==
    /\ levels < MaxLevels
    /\ levels' = levels + 1
    /\ level_active' = TRUE
    /\ driving' = FALSE
    /\ engine_broken' = TRUE
    /\ _generate_level_spawns(reason)
    /\ msg' = "LEVEL STARTED"
    /\ UNCHANGED out_of_fuel

\* a frame that looks at neither the fuel nor the deadline
DriveOnRegardless(dt, due) ==
    /\ ver = 1 /\ msg = "" /\ driving
    /\ TimedTick(dt, due)
    /\ clock' = (IF Timed THEN clock + dt ELSE clock)
    /\ fuel' = Max(0, fuel - FrameBurn(dt))
    /\ msg' = "" /\ scav' = NoScav
    /\ UNCHANGED <<ver, fuel_accum, breakdown_at, shells, guns, crew, parts, ammo, view, timers, game_over,
                   scavenge_mode, flags, level, sprites, levels>>

\* v1 update(dt) while no popup is open, dt in ms; due: now_ms() >= breakdown_at_ms
update(dt, due) ==
    /\ ver = 1 /\ msg = "" /\ driving
    /\ levels < MaxLevels
    /\ TimedTick(dt, due)
    /\ clock' = (IF Timed THEN clock + dt ELSE clock)
    /\ scav' = NoScav
    /\ UNCHANGED <<ver, fuel_accum, breakdown_at, shells, guns, crew, parts, ammo, view, timers, game_over,
                   scavenge_mode>>
    /\ fuel' = Max(0, fuel - FrameBurn(dt))
    /\ LET cause == TickCause(Max(0, fuel - FrameBurn(dt)) <= 0, due)
       IN IF cause # ""
          THEN start_new_level(Reason(ver, cause))
          ELSE msg' = "" /\ UNCHANGED <<flags, level, sprites, levels>>

\* v1 handle_action("POPUP_OK"): close_popup()
close_popup ==
    /\ ver = 1 /\ msg # ""
    /\ msg' = "" /\ scav' = NoScav
    /\ UNCHANGED <<ver, fuel_accum, clock, breakdown_at, ledger, flags, level, sprites, view, timers, game_over,
                   scavenge_mode, levels>>

\* v1 attempt_start(), the START button of the DRIVER view
attempt_start ==
    /\ ver = 1 /\ msg = "" /\ view = "DRIVER"
    /\ scav' = NoScav
    /\ UNCHANGED <<ver, fuel_accum, clock, ledger, out_of_fuel, level, view, timers, game_over,
                   scavenge_mode, levels>>
    /\ IF driving
       THEN msg' = "Already moving" /\ UNCHANGED <<driving, level_active, engine_broken, sprites, breakdown_at>>
       ELSE IF engine_broken
            THEN msg' = "Engine broken" /\ UNCHANGED <<driving, level_active, engine_broken, sprites, breakdown_at>>
            ELSE IF TankEmpty(fuel)
                 THEN msg' = "No fuel" /\ UNCHANGED <<driving, level_active, engine_broken, sprites, breakdown_at>>
                 ELSE IF level_active
                      THEN /\ level_active' = FALSE      \* end_level_and_resume_driving()
                           /\ engine_broken' = FALSE
                           /\ driving' = TRUE
                           /\ breakdown_at' \in NewDeadline
                           /\ sprites' = NoSprites
                           /\ msg' = "You start the engine"
                      ELSE /\ driving' = TRUE
                           /\ breakdown_at' \in NewDeadline
                           /\ msg' = ""
                           /\ UNCHANGED <<level_active, engine_broken, sprites>>

\* v1 attempt_stop(), the STOP button of the DRIVER view
attempt_stop ==
    /\ ver = 1 /\ msg = "" /\ view = "DRIVER"
    /\ scav' = NoScav
    /\ UNCHANGED <<ver, fuel_accum, clock, breakdown_at, ledger, view, timers, game_over, scavenge_mode>>
    /\ IF ~driving
       THEN msg' = "Already stopped" /\ UNCHANGED <<flags, level, sprites, levels>>
       ELSE start_new_level("Manual STOP")

\* v1 attempt_fix_engine(), the button of the ENGINE view, enabled in a level
attempt_fix_engine ==
    /\ ver = 1 /\ msg = "" /\ view = "ENGINE" /\ level_active
    /\ scav' = NoScav
    /\ UNCHANGED <<ver, fuel_accum, clock, breakdown_at, fuel, shells, guns, crew, ammo, driving, level_active,
                   out_of_fuel, level, sprites, view, timers, game_over,
                   scavenge_mode, levels>>
    /\ IF ~engine_broken
       THEN msg' = "The engine is not broken" /\ UNCHANGED <<parts, engine_broken>>
       ELSE IF NotEnoughParts(parts)
            THEN msg' = "Not enough parts" /\ UNCHANGED <<parts, engine_broken>>
            ELSE /\ parts' = parts - 1
                 /\ engine_broken' = FALSE
                 /\ msg' = "Engine repaired"

\* v1 shoot_zombie_at(view, mouse_pos), from handle_click in a gunner's outside view
shoot_zombie_at(onZombie) ==
    /\ ver = 1 /\ msg = "" /\ level_active /\ view \in {"OUT_LEFT", "OUT_RIGHT"}
    /\ onZombie => sprites[view]["zombie"] > 0
    /\ scav' = NoScav
    /\ UNCHANGED <<ver, fuel_accum, clock, breakdown_at, fuel, guns, crew, parts, ammo, flags, view, timers,
                   game_over, scavenge_mode, levels>>
    /\ IF OutOfShells(ver, shells)
       THEN msg' = "No shells" /\ UNCHANGED <<shells, level, sprites>>
       ELSE IF ~onZombie
            THEN UNCHANGED <<msg, shells, level, sprites>>
            ELSE /\ shells' = shells - WeaponCost("cannon")
                 /\ level' = [level EXCEPT !.zombies = IF @ > 0 THEN @ - 1 ELSE @]
                 /\ sprites' = [v \in OutViews |->
                                 [sprites[v] EXCEPT !["zombie"] = IF @ > 0 THEN @ - 1 ELSE @]]
                 /\ UNCHANGED msg

\* v1 LevelPool.total_items()
total_items(pool) == pool.fuel_cans + pool.shells + pool.parts

\* v1: what take_n picks bring back, each random.choice among the kinds left
Picks(pool, take_n) ==
    {g \in [ItemKinds -> 0..take_n] :
        /\ g["ammo"] = 0
        /\ g["part"] <= pool.parts /\ g["fuel"] <= pool.fuel_cans /\ g["shell"] <= pool.shells
        /\ SumGot(g) = Min(take_n, total_items(pool))}

\* v1 resolve_scavenge()
resolve_scavenge(mode, give_gun) ==
    LET zombies == level.zombies
        chance == Chance(ver, mode, zombies, give_gun, guns)
        gave_gun == give_gun /\ guns > 0
        out == CommitGun(give_gun, guns)
        total == total_items(level)
        max_take == MaxTake(ver, total, mode)
    IN \E success \in Survivals(chance) :
        IF success
        THEN \E take_n \in 1..max_take : \E g \in Picks(level, take_n) :
             \E gained_fuel \in FuelYields(g["fuel"]) :
                /\ level' = [level EXCEPT !.fuel_cans = @ - g["fuel"],
                                          !.shells = @ - g["shell"],
                                          !.parts = @ - g["part"]]
                /\ fuel' = fuel + gained_fuel
                /\ shells' = shells + g["shell"]
                /\ parts' = parts + g["part"]
                /\ guns' = out + (IF gave_gun THEN 1 ELSE 0)
                /\ msg' = "SUCCESS"
                /\ scav' = ScavRecord(mode, give_gun, zombies, chance, gave_gun, TRUE)
                /\ UNCHANGED crew
        ELSE /\ crew' = crew - 1
             /\ guns' = out
             /\ msg' = IF crew - 1 <= 0 THEN "Game over" ELSE "FAILED"
             /\ scav' = ScavRecord(mode, give_gun, zombies, chance, gave_gun, FALSE)
             /\ UNCHANGED <<fuel, shells, parts, level>>

\* v1 open_scavenge_menu(), the button of the ENGINE view, then the choices of the
\* modal and SCAV_GO (the modal takes every click until it closes)
open_scavenge_menu(mode, give_gun) ==
    /\ ver = 1 /\ msg = "" /\ view = "ENGINE" /\ level_active
    /\ UNCHANGED <<ver, fuel_accum, clock, breakdown_at, ammo, flags, sprites, view, timers, game_over,
                   scavenge_mode, levels>>
    /\ IF crew <= 0
       THEN /\ msg' = "No crew left" /\ scav' = NoScav
            /\ UNCHANGED <<fuel, shells, guns, crew, parts, level>>
       ELSE IF total_items(level) <= 0
            THEN /\ msg' = "Nothing left to scavenge" /\ scav' = NoScav
                 /\ UNCHANGED <<fuel, shells, guns, crew, parts, level>>
            ELSE resolve_scavenge(mode, give_gun)

(***************************************************************************)
(* v2: the pygame prototype with clickable pickups                         *)
(***************************************************************************)
\* v2 begin_level(reason)
begin_level(reason) ==
    /\ levels < MaxLevels
    /\ levels' = levels + 1
    /\ level_active' = TRUE
    /\ engine_broken' = TRUE
    /\ driving' = FALSE
    /\ scavenge_mode' = FALSE
    /\ _generate_level_spawns(reason)
    /\ msg' = reason
    /\ UNCHANGED out_of_fuel

\* v2 update_driving(dt), dt in ms: n units leave fuel_accum, the loop returning
\* when the tank is empty; due: breakdown_timer <= 0.  With the deadline open only
\* the frames that change something are kept
update_driving(dt, due) ==
    /\ ver = 2 /\ ~game_over
    /\ driving /\ ~level_active
    /\ levels < MaxLevels
    /\ TimedTick(dt, due)
    /\ clock' = (IF Timed THEN clock + dt ELSE clock)
    /\ scav' = NoScav
    /\ UNCHANGED <<ver, breakdown_at, shells, guns, crew, parts, ammo, view, timers, game_over>>
    /\ \E n \in UnitsLeaving(dt) :
        /\ Timed \/ n > 0 \/ due
        /\ LET empty == n > 0 /\ fuel - n <= 0
               burnt == IF empty THEN fuel ELSE n
               cause == TickCause(empty, due)
           IN /\ fuel' = fuel - burnt
              /\ fuel_accum' = (IF Timed THEN fuel_accum + TickBurn(2) * dt - 1000 * burnt
                                ELSE fuel_accum)
              /\ IF cause # ""
                 THEN begin_level(Reason(ver, cause))
                 ELSE msg' = "" /\ UNCHANGED <<flags, level, sprites, scavenge_mode, levels>>

\* v2 stop_driving_now(), the Stop button build_ui adds in the driver view
stop_driving_now ==
    /\ ver = 2 /\ ~game_over
    /\ view = "DRIVER" /\ driving /\ ~level_active
    /\ scav' = NoScav
    /\ UNCHANGED <<ver, fuel_accum, clock, breakdown_at, ledger, view, timers, game_over>>
    /\ begin_level("manual_stop")

\* v2 attempt_start_driving(), the Start button build_ui adds in the driver view;
\* a click on the disabled button does nothing
attempt_start_driving ==
    /\ ver = 2 /\ ~game_over
    /\ view = "DRIVER" /\ ~(driving /\ ~level_active)
    /\ scav' = NoScav
    /\ UNCHANGED <<ver, fuel_accum, clock, ledger, out_of_fuel, level, sprites, view, timers, game_over,
                   scavenge_mode, levels>>
    /\ IF engine_broken \/ TankEmpty(fuel)                 \* can_start is false
       THEN msg' = "" /\ UNCHANGED <<driving, level_active, engine_broken, breakdown_at>>
       ELSE IF level_active
            THEN IF engine_broken
                 THEN msg' = "Engine broken" /\ UNCHANGED <<driving, level_active, engine_broken, breakdown_at>>
                 ELSE IF TankEmpty(fuel)
                      THEN msg' = "No fuel" /\ UNCHANGED <<driving, level_active, engine_broken, breakdown_at>>
                      ELSE /\ level_active' = FALSE      \* end_level_and_resume_driving()
                           /\ engine_broken' = FALSE
                           /\ driving' = TRUE
                           /\ breakdown_at' \in NewDeadline
                           /\ msg' = "Moving again"
            ELSE IF TankEmpty(fuel)
                 THEN msg' = "No fuel" /\ UNCHANGED <<driving, level_active, engine_broken, breakdown_at>>
                 ELSE /\ driving' = TRUE
                      /\ msg' = ""
                      /\ UNCHANGED <<level_active, engine_broken, breakdown_at>>

\* v2 attempt_fix_engine(), the button of the engine view, enabled in a level
attempt_fix_engine_v2 ==
    /\ ver = 2 /\ ~game_over
    /\ view = "ENGINE" /\ level_active
    /\ scav' = NoScav
    /\ UNCHANGED <<ver, fuel_accum, clock, breakdown_at, fuel, shells, guns, crew, ammo, driving, level_active,
                   out_of_fuel, level, sprites, view, timers, game_over,
                   scavenge_mode, levels>>
    /\ IF NotEnoughParts(parts)
       THEN msg' = "Not enough parts" /\ UNCHANGED <<parts, engine_broken>>
       ELSE /\ parts' = parts - 1
            /\ engine_broken' = FALSE
            /\ msg' = "Engine repaired"

\* v2 open_scavenge_menu(), the Scavenge button: shown in a level, enabled with crew
open_scavenge_menu_v2 ==
    /\ ver = 2 /\ ~game_over
    /\ level_active /\ crew > 0
    /\ scavenge_mode' = TRUE
    /\ msg' = "" /\ scav' = NoScav
    /\ UNCHANGED <<ver, fuel_accum, clock, breakdown_at, ledger, flags, level, sprites, view, timers, game_over, levels>>

\* v2: the ways k of the items of one kind are taken from the views
TakeFrom(sp, kind, k) ==
    {f \in [OutViews -> 0..k] :
        /\ f["OUT_DRIVER"] + f["OUT_LEFT"] + f["OUT_RIGHT"] = k
        /\ \A v \in OutViews : f[v] <= sp[v][kind]}

\* v2: the kinds of the take_count items random.sample finds
Found(sp, take_count) ==
    {g \in [ItemKinds -> 0..take_count] :
        /\ \A k \in ItemKinds : g[k] <= Avail(2, sp)[k]
        /\ SumGot(g) = take_count}

\* v2 do_scavenge(risk, give_gun)
do_scavenge(risk, give_gun) ==
    LET len == SumGot(Avail(2, sprites))
        zombies_alive == _count_remaining_items(sprites, "zombie")
        chance == Chance(ver, risk, zombies_alive, give_gun, guns)
        armed == give_gun /\ guns > 0
        max_take == MaxTake(ver, len, risk)
    IN IF crew <= 0
       THEN /\ msg' = "No crew left" /\ scav' = NoScav
            /\ UNCHANGED <<ledger, sprites, game_over, scavenge_mode>>
       ELSE IF len = 0
            THEN /\ msg' = "Nothing useful left" /\ scav' = NoScav
                 /\ UNCHANGED <<ledger, sprites, game_over, scavenge_mode>>
            ELSE /\ scavenge_mode' = FALSE
                 /\ \E survives \in Survivals(chance) :
                    IF survives
                    THEN \E take_count \in 1..max_take : \E g \in Found(sprites, take_count) :
                         \E tp \in TakeFrom(sprites, "part", g["part"]),
                            tf \in TakeFrom(sprites, "fuel", g["fuel"]),
                            ts \in TakeFrom(sprites, "shell", g["shell"]),
                            fuel_gain \in FuelYields(g["fuel"]),
                            shells_gain \in ShellYields(g["shell"]) :
                            /\ sprites' = [v \in OutViews |->
                                             [sprites[v] EXCEPT !["part"] = @ - tp[v],
                                                                !["fuel"] = @ - tf[v],
                                                                !["shell"] = @ - ts[v]]]
                            /\ fuel' = fuel + fuel_gain
                            /\ parts' = parts + g["part"]
                            /\ shells' = shells + shells_gain
                            /\ msg' = "Scavenger returned"
                            /\ scav' = ScavRecord(risk, give_gun, zombies_alive, chance, armed, TRUE)
                            /\ UNCHANGED <<guns, crew, ammo, game_over>>
                    ELSE /\ crew' = crew - 1
                         /\ guns' = CommitGun(armed, guns)
                         /\ game_over' = (crew - 1 <= 0)
                         /\ msg' = IF crew - 1 <= 0 THEN "Game Over" ELSE "Never returned"
                         /\ scav' = ScavRecord(risk, give_gun, zombies_alive, chance, armed, FALSE)
                         /\ UNCHANGED <<fuel, shells, parts, ammo, sprites>>

\* v2 _confirm_scavenge() after _select_scavenge_risk and _select_scavenge_gun; the
\* Give Gun button is enabled with guns > 0, and guns only changes in do_scavenge,
\* which clears the selection
_confirm_scavenge(risk, give_gun) ==
    /\ ver = 2 /\ ~game_over
    /\ scavenge_mode
    /\ give_gun => guns > 0
    /\ UNCHANGED <<ver, fuel_accum, clock, breakdown_at, flags, level, view, timers, levels>>
    /\ do_scavenge(risk, give_gun)

\* v2 handle_outside_click(pos): target is what the click lands on
handle_outside_click(target) ==
    /\ ver = 2 /\ ~game_over
    /\ view \in OutViews
    /\ IF level_active THEN target # "none" => sprites[view][target] > 0
                       ELSE target = "none"
    /\ target = "zombie" => view # "OUT_DRIVER"
    /\ scav' = NoScav
    /\ UNCHANGED <<ver, fuel_accum, clock, breakdown_at, guns, crew, ammo, flags, level, view, timers, game_over,
                   scavenge_mode, levels>>
    /\ IF ~level_active
       THEN msg' = "Nothing to report" /\ UNCHANGED <<fuel, shells, parts, sprites>>
       ELSE IF target = "zombie"                           \* handle_shot_click
            THEN IF OutOfShells(ver, shells)
                 THEN msg' = "Out of shells" /\ UNCHANGED <<fuel, shells, parts, sprites>>
                 ELSE /\ shells' = shells - WeaponCost("cannon")
                      /\ sprites' = [sprites EXCEPT ![view]["zombie"] = @ - 1]
                      /\ msg' = "BOOM"
                      /\ UNCHANGED <<fuel, parts>>
            ELSE IF target = "none"                        \* handle_item_click finds nothing
            THEN msg' = "" /\ UNCHANGED <<fuel, shells, parts, sprites>>
            ELSE /\ sprites' = [sprites EXCEPT ![view][target] = @ - 1]   \* handle_item_click
                 /\ msg' = "Collected"
                 /\ CASE target = "fuel"  -> /\ \E gained \in FuelYields(1) : fuel' = fuel + gained
                                             /\ UNCHANGED <<shells, parts>>
                      [] target = "part"  -> /\ parts' = parts + 1
                                             /\ UNCHANGED <<fuel, shells>>
                      [] target = "shell" -> /\ \E gained \in ShellYields(1) : shells' = shells + gained
                                             /\ UNCHANGED <<fuel, parts>>

(***************************************************************************)
(* Changing the view                                                       *)
(***************************************************************************)
\* v1 begin_transition / the LOOK_OUT actions, v2 start_fade_to, v3..v5
\* _transition_to / _attempt_outside: v1, v3 and v4 do not look out while driving
_show_view(view_key) ==
    /\ ~game_over
    /\ ver = 1 => msg = ""
    /\ view_key # view
    /\ scav' = NoScav
    /\ UNCHANGED <<ver, fuel_accum, clock, breakdown_at, ledger, flags, level, sprites, timers, game_over,
                   scavenge_mode, levels>>
    /\ IF view_key \in OutViews /\ driving /\ ver \in {1, 3, 4}
       THEN msg' = "Nothing to report" /\ UNCHANGED view
       ELSE msg' = "" /\ view' = view_key

(***************************************************************************)
(* The state after construction                                            *)
(***************************************************************************)
Init ==
    /\ ver \in Versions
    /\ fuel = StartFuel
    /\ shells = StartShells
    /\ guns = StartGuns
    /\ crew = StartCrew
    /\ parts = 0
    /\ ammo = (IF ver \in {4, 5} THEN StartAmmo ELSE 0)
    /\ driving = TRUE
    /\ level_active = FALSE
    /\ engine_broken = FALSE
    /\ out_of_fuel = FALSE
    /\ level = NoLevel
    /\ sprites = NoSprites
    /\ view = "DRIVER"
    /\ fuel_tick_after_id = (IF Tk(ver) THEN 1 ELSE 0)
    /\ breakdown_after_id = (IF Tk(ver) THEN 2 ELSE 0)
    /\ pending = (IF Tk(ver) THEN [NoPending EXCEPT ![1] = "fuel", ![2] = "breakdown"]
                  ELSE NoPending)
    /\ game_over = FALSE
    /\ scavenge_mode = FALSE
    /\ msg = ""
    /\ scav = NoScav
    /\ levels = 0
    /\ clock = 0
    /\ breakdown_at = 0
    /\ fuel_accum = 0

Next ==
    \/ \E i \in TimerIds : _fuel_tick(i)
    \/ \E i \in TimerIds : _trigger_breakdown_level(i)
    \/ _driver_stop
    \/ _driver_start
    \/ _fix_engine
    \/ \E onZombie \in BOOLEAN, num \in {1, 3} : _on_canvas_click(onZombie, num)
    \/ \E approach \in Approaches, give_gun \in BOOLEAN : _open_scavenge_dialog(approach, give_gun)
    \/ \E dt \in FrameLengths, due \in BOOLEAN : update(dt, due)
    \/ close_popup
    \/ attempt_start
    \/ attempt_stop
    \/ attempt_fix_engine
    \/ \E onZombie \in BOOLEAN : shoot_zombie_at(onZombie)
    \/ \E mode \in Approaches, give_gun \in BOOLEAN : open_scavenge_menu(mode, give_gun)
    \/ \E dt \in FrameLengths, due \in BOOLEAN : update_driving(dt, due)
    \/ stop_driving_now
    \/ attempt_start_driving
    \/ attempt_fix_engine_v2
    \/ open_scavenge_menu_v2
    \/ \E risk \in Approaches, give_gun \in BOOLEAN : _confirm_scavenge(risk, give_gun)
    \/ \E target \in Kinds \cup {"none"} : handle_outside_click(target)
    \/ \E view_key \in Views(ver) : _show_view(view_key)

Spec == Init /\ [][Next]_vars

(***************************************************************************)
(* Scavenging on its own: a stopped tank in a level, every zombie count a  *)
(* level can hold, and the items lying anywhere in the three views         *)
(***************************************************************************)
\* all n sprites of a kind in one view
InView(view_key, n) == [v \in OutViews |-> IF v = view_key THEN n ELSE 0]

\* the zombie counts a scavenge can meet: v1 and v2 count down with every kill
ZombieRange(v) == (IF v \in {4, 5} THEN 1 ELSE 0) .. ZombiesMax(v)

\* the tank stopped by hand in a level holding the pool and the sprites given, with
\* g guns left (each gun short of the start went out with a scavenger who died)
Stopped(pool, sp, g) ==
    /\ fuel = StartFuel
    /\ shells = StartShells
    /\ guns = g
    /\ crew = StartCrew - (StartGuns - g)
    /\ parts = 0
    /\ ammo = (IF ver \in {4, 5} THEN StartAmmo ELSE 0)
    /\ driving = FALSE
    /\ level_active = TRUE
    /\ engine_broken = (ver \in {1, 2})
    /\ out_of_fuel = FALSE
    /\ level = (IF ver = 2 THEN NoLevel ELSE pool)
    /\ sprites = (IF ver = 1 THEN gen_outside_sprites_for_view(pool) ELSE sp)
    /\ view = (IF ver \in {3, 4} THEN "DRIVER" ELSE "ENGINE")
    /\ fuel_tick_after_id = 0
    /\ breakdown_after_id = 0
    /\ pending = NoPending
    /\ game_over = FALSE
    /\ scavenge_mode = FALSE
    /\ msg = ""
    /\ scav = NoScav
    /\ levels = 1
    /\ clock = 0
    /\ breakdown_at = 0
    /\ fuel_accum = 0

\* one part and one fuel can (v4, v5: and one ammo box) among nz zombies
InitChance ==
    \E nz \in ZombieRange(ver), g \in 0..StartGuns :
        LET na == IF ver \in {4, 5} THEN 1 ELSE 0 IN
        Stopped([reason |-> "Manual stop", parts |-> 1, fuel_cans |-> 1, shells |-> 0,
                 zombies |-> nz, ammo_boxes |-> na],
                _populate_outside_sprites(InView("OUT_DRIVER", 1), InView("OUT_DRIVER", 1),
                                          InView("OUT_DRIVER", 0), InView("OUT_LEFT", nz),
                                          InView("OUT_DRIVER", na)),
                g)

\* LootItems items of every kind: those of one kind lie in the views in every
\* possible way, the others in the first view
InitLoot ==
    LET na == IF ver \in {4, 5} THEN LootItems ELSE 0
        pool == [reason |-> "Manual stop", parts |-> LootItems, fuel_cans |-> LootItems,
                 shells |-> LootItems, zombies |-> 1, ammo_boxes |-> na]
    IN IF ver = 1
       THEN Stopped(pool, NoSprites, StartGuns)
       ELSE \E spread \in ScavKinds(ver), pk \in Place(LootItems, 3) :
                LET lie(kind, n) == IF kind = spread THEN pk ELSE InView("OUT_DRIVER", n)
                IN Stopped(pool,
                           _populate_outside_sprites(lie("part", LootItems),
                                                     lie("fuel", LootItems),
                                                     lie("shell", LootItems),
                                                     InView("OUT_LEFT", 1),
                                                     lie("ammo", na)),
                           StartGuns)

InitScavenge ==
    /\ ver \in Versions
    /\ InitChance \/ InitLoot

NextScavenge ==
    \/ \E approach \in Approaches, give_gun \in BOOLEAN : _open_scavenge_dialog(approach, give_gun)
    \/ \E mode \in Approaches, give_gun \in BOOLEAN : open_scavenge_menu(mode, give_gun)
    \/ close_popup
    \/ open_scavenge_menu_v2
    \/ \E risk \in Approaches, give_gun \in BOOLEAN : _confirm_scavenge(risk, give_gun)

SpecScavenge == InitScavenge /\ [][NextScavenge]_vars

(***************************************************************************)
(* Steps, named by the command that makes them                             *)
(***************************************************************************)
StartCommand == _driver_start \/ attempt_start \/ attempt_start_driving

FixCommand == _fix_engine \/ attempt_fix_engine \/ attempt_fix_engine_v2

\* a click on a zombie that fires the cannon
CannonShot ==
    \/ \E num \in {1, 3} :
        /\ _on_canvas_click(TRUE, num)
        /\ level_active /\ view \in ShootViews(ver)
        /\ Weapon(ver, view, num) = "cannon"
    \/ shoot_zombie_at(TRUE)
    \/ handle_outside_click("zombie")

\* a click on a zombie that fires the machine gun
MgBurst ==
    \E num \in {1, 3} :
        /\ _on_canvas_click(TRUE, num)
        /\ level_active /\ view \in ShootViews(ver)
        /\ Weapon(ver, view, num) = "mg"

ScavengeCommand(approach, give_gun) ==
    \/ _open_scavenge_dialog(approach, give_gun)
    \/ open_scavenge_menu(approach, give_gun)
    \/ _confirm_scavenge(approach, give_gun)

\* the parts lying in a level: v1 and v3..v5 the pool counter, v2 and v3..v5 the sprites
PartsInPool(lv, sp) ==
    IF ver = 2 THEN _count_remaining_items(sp, "part")
    ELSE IF ver = 1 THEN lv.parts
    ELSE Min(lv.parts, _count_remaining_items(sp, "part"))

\* the items of a kind lying in a level
ItemsInPool(lv, sp, kind) ==
    IF ver = 1
    THEN CASE kind = "part" -> lv.parts
           [] kind = "fuel" -> lv.fuel_cans
           [] kind = "shell" -> lv.shells
           [] OTHER -> 0
    ELSE _count_remaining_items(sp, kind)

(***************************************************************************)
(* C1 .. C10                                                               *)
(***************************************************************************)
NonNegative ==
    fuel >= 0 /\ shells >= 0 /\ guns >= 0 /\ crew >= 0 /\ parts >= 0 /\ ammo >= 0

OverCostRejected ==
    /\ (shells < SHELLS_PER_SHOT /\ CannonShot) => UNCHANGED <<ledger, level, sprites>>
    /\ (ammo < MG_AMMO_COST /\ MgBurst) => UNCHANGED <<ledger, level, sprites>>
    /\ (parts < 1 /\ FixCommand) => UNCHANGED <<ledger, engine_broken>>
    /\ \A approach \in Approaches, give_gun \in BOOLEAN :
         (crew < 1 /\ ScavengeCommand(approach, give_gun))
            => UNCHANGED <<ledger, level, sprites>>

\* C1: after any sequence of commands and ticks every ledger counter (fuel, shells,
\* guns, crew, parts, ammo) is >= 0, and a shot, a machine-gun burst, a repair or a
\* scavenge whose cost exceeds the balance leaves the ledger and the pool unchanged
C1_LedgerNeverNegative == []NonNegative /\ [][OverCostRejected]_vars

\* a shot was refused for want of shells
C1_Witness ==
    /\ msg \in {"No shells", "Out of shells"}
    /\ shells = 0 /\ level_active

\* C2: once crew is 0 no command and no tick changes a ledger counter, the level
\* state or the pool
C2_GameOverIsTerminal ==
    [][crew = 0 => UNCHANGED <<ledger, flags, level, sprites>>]_vars

\* C3: a start command given while a level is active and the engine is broken is
\* refused whatever the fuel: the tank stays stopped, the level stays active, no
\* timer is set and no counter changes
C3_StartRefusedWhileEngineBroken ==
    [][(level_active /\ engine_broken /\ StartCommand)
         => UNCHANGED <<ledger, flags, timers, level, sprites>>]_vars

\* a start was refused with fuel in the tank
C3_Witness ==
    /\ msg = "Engine broken"
    /\ level_active /\ engine_broken /\ ~driving /\ fuel > 0

\* C4: in v3..v5 a start command given while fuel is 0 is refused and driving does
\* not resume, whatever the engine state and the reason of the level
C4_StartRefusedWithoutFuel ==
    [][(Tk(ver) /\ fuel = 0 /\ _driver_start)
         => (~driving' /\ UNCHANGED <<ledger, flags, timers>>)]_vars

\* a start was refused on an empty tank
C4_Witness ==
    /\ Tk(ver) /\ msg = "No fuel"
    /\ fuel = 0 /\ level_active /\ ~driving

\* C5: right after every level start the fresh pool holds at least one part, for
\* every outcome of the draws
C5_LevelStartsWithAPart ==
    [][levels' = levels + 1 => (level_active' /\ PartsInPool(level', sprites') >= 1)]_vars

\* a level has just started
C5_Witness ==
    /\ levels = 1 /\ level_active /\ ~scav.done
    /\ parts = 0 /\ crew = StartCrew
    /\ PartsInPool(level, sprites) >= 1

\* C6: in an active level of v3..v5 the zombie count the scavenge chance is computed
\* from, level.zombies, is the number of zombies alive in the three outside views
C6_ZombieCountIsAlive ==
    (Tk(ver) /\ level_active)
        => level.zombies = _count_remaining_items(sprites, "zombie")

\* C7: a scavenge whose scavenger dies takes exactly one crew member, and exactly one
\* gun iff a gun was asked for and guns > 0; one whose scavenger survives leaves crew
\* and guns as they were
C7_CrewAndGunsOfAScavenge ==
    [][scav'.done =>
         IF scav'.survived
         THEN crew' = crew /\ guns' = guns
         ELSE /\ crew' = crew - 1
              /\ guns' = guns - (IF scav'.give_gun /\ guns > 0 THEN 1 ELSE 0)]_vars

\* an armed scavenger died
C7_Witness ==
    /\ scav.done /\ ~scav.survived
    /\ scav.give_gun /\ scav.gun_committed
    /\ guns = StartGuns - 1 /\ crew = StartCrew - 1

\* a scavenge can be sent out: a level is on, a crew member is left, and something
\* is left to find where the prototype checks that first (v1, v2)
CanScavenge ==
    /\ level_active /\ crew > 0 /\ ~game_over
    /\ ver = 1 => (msg = "" /\ view = "ENGINE" /\ total_items(level) > 0)
    /\ ver = 2 => SumGot(Avail(2, sprites)) > 0

\* C8: a scavenge that asks for a gun while guns is 0 goes ahead unarmed: it is not
\* refused, guns stays 0 whatever the outcome, and the chance carries no gun bonus
C8_NoGunToGive ==
    /\ [](\A approach \in Approaches :
            (CanScavenge /\ guns = 0 /\ ver # 2)
               => ENABLED (ScavengeCommand(approach, TRUE) /\ scav'.done /\ scav'.give_gun))
    /\ [][(guns = 0 /\ scav'.done /\ scav'.give_gun)
            => /\ guns' = 0
               /\ ~scav'.gun_committed
               /\ scav'.chance = _clamp(BaseChance(scav'.approach)
                                          - scav'.zombies * ZombiePenalty(ver),
                                        CHANCE_MIN, CHANCE_MAX)]_vars

\* a gun was asked for with none left, and the scavenge was resolved
C8_Witness ==
    /\ scav.done /\ scav.give_gun /\ ~scav.gun_committed
    /\ guns = 0

\* C9: on a surviving scavenge the items of each kind that leave the pool are the
\* items of that kind the ledger is credited with
C9_LootLeavesThePool ==
    [][(scav'.done /\ scav'.survived) =>
         LET gone(kind) == ItemsInPool(level, sprites, kind)
                             - ItemsInPool(level', sprites', kind)
         IN /\ parts' - parts = gone("part")
            /\ IF ver = 2 THEN shells' - shells \in ShellYields(gone("shell"))
                         ELSE shells' - shells = gone("shell")
            /\ fuel' - fuel \in FuelYields(gone("fuel"))
            /\ ammo' - ammo = gone("ammo") * AMMO_PER_BOX
            /\ \A kind \in ItemKinds : gone(kind) >= 0]_vars

\* a survivor brought one part back, and the part that is left lies beyond the first view
C9_Witness ==
    /\ Tk(ver) /\ scav.done /\ scav.survived
    /\ sprites["OUT_DRIVER"]["part"] = 0
    /\ _count_remaining_items(sprites, "part") = LootItems - 1
    /\ parts = 1

\* C10: for every approach, every zombie count and both gun choices the chance of a
\* scavenge lies in 5 .. 95 hundredths
C10_ChanceClamped ==
    scav.done => (CHANCE_MIN <= scav.chance /\ scav.chance <= CHANCE_MAX)

\* the clamp lifted a chance that the zombies had pushed below the floor
C10_Witness ==
    /\ scav.done /\ scav.chance = CHANCE_MIN
    /\ ~scav.give_gun
    /\ BaseChance("greedy") - scav.zombies * ZombiePenalty(ver) < CHANCE_MIN
    /\ BaseChance("moderate") - scav.zombies * ZombiePenalty(ver) > CHANCE_MIN

(***************************************************************************)
(* Repairs on their own: the tank has just stopped in a level, for each of *)
(* the three causes, carrying the parts earlier levels left in the ledger  *)
(***************************************************************************)
\* the state a level start leaves: v1 start_new_level, v2 begin_level, v3..v5
\* _start_level, with p parts in the ledger and one part, one fuel can and the
\* fewest zombies lying outside
StoppedBy(cause, p) ==
    LET nz == ZombiesMin(ver)
        na == IF ver \in {4, 5} THEN 1 ELSE 0
    IN
    /\ fuel = (IF cause = "fuel" THEN 0 ELSE StartFuel)
    /\ shells = StartShells
    /\ guns = StartGuns
    /\ crew = StartCrew
    /\ parts = p
    /\ ammo = (IF ver \in {4, 5} THEN StartAmmo ELSE 0)
    /\ driving = FALSE
    /\ level_active = TRUE
    /\ engine_broken = (IF Tk(ver) THEN cause = "breakdown" ELSE TRUE)
    /\ out_of_fuel = (Tk(ver) /\ cause = "fuel")
    /\ level = (IF ver = 2 THEN NoLevel
                ELSE [reason |-> Reason(ver, cause), parts |-> 1, fuel_cans |-> 1,
                      shells |-> 0, zombies |-> nz, ammo_boxes |-> na])
    /\ sprites = (IF ver = 1 THEN gen_outside_sprites_for_view(level)
                  ELSE _populate_outside_sprites(InView("OUT_DRIVER", 1), InView("OUT_DRIVER", 1),
                                                 InView("OUT_DRIVER", 0), InView("OUT_LEFT", nz),
                                                 InView("OUT_DRIVER", na)))
    /\ view = "DRIVER"
    /\ fuel_tick_after_id = 0
    /\ breakdown_after_id = 0
    /\ pending = NoPending
    /\ game_over = FALSE
    /\ scavenge_mode = FALSE
    /\ msg = (CASE ver = 1 -> "LEVEL STARTED" [] ver = 2 -> Reason(ver, cause) [] OTHER -> "")
    /\ scav = NoScav
    /\ levels = 1
    /\ clock = 0
    /\ breakdown_at = 0
    /\ fuel_accum = 0

InitRepair ==
    /\ ver \in Versions
    /\ \E cause \in Causes, p \in 0..SpareParts : StoppedBy(cause, p)

NextRepair ==
    \/ _fix_engine
    \/ attempt_fix_engine
    \/ attempt_fix_engine_v2
    \/ _driver_start
    \/ attempt_start
    \/ attempt_start_driving
    \/ close_popup
    \/ \E view_key \in Views(ver) : _show_view(view_key)

SpecRepair == InitRepair /\ [][NextRepair]_vars

(***************************************************************************)
(* C11 .. C20                                                              *)
(***************************************************************************)
\* C11: a repair asked for while the engine is not broken is refused, leaving parts
\* and engine_broken as they were; a part leaves the ledger only when the engine was
\* broken
C11_FixRefusedWhenNotBroken ==
    [][/\ (~engine_broken /\ FixCommand) => UNCHANGED <<parts, engine_broken>>
       /\ parts' < parts => engine_broken]_vars

\* C12: a repair asked for with parts = 0 while the engine is broken in a level
\* fails: parts stays 0, the engine stays broken, no other ledger counter changes,
\* and a start command given after it is still refused
C12_FixRefusedWithoutParts ==
    [][/\ (level_active /\ engine_broken /\ parts = 0 /\ FixCommand)
             => (parts' = 0 /\ engine_broken' /\ UNCHANGED <<ledger, flags>>)
       /\ (level_active /\ engine_broken /\ parts = 0 /\ StartCommand)
             => UNCHANGED <<ledger, flags, timers>>]_vars

\* a repair was refused for want of parts
C12_Witness ==
    /\ msg = "Not enough parts"
    /\ parts = 0 /\ engine_broken /\ level_active /\ ~driving

\* the reason of the level in progress: v2 keeps none, its level start shows it
LevelReason(lv, shown) == IF ver = 2 THEN shown ELSE lv.reason

\* C13: a level entered by a stop command or by fuel depletion starts with the
\* engine not broken, only a breakdown breaks it; so in a level entered by a stop
\* with fuel > 0 a start command resumes driving without a repair and without
\* spending a part
C13_OnlyBreakdownBreaksEngine ==
    [][/\ (levels' = levels + 1
             /\ LevelReason(level', msg') \in {Reason(ver, "stop"), Reason(ver, "fuel")})
          => ~engine_broken'
       /\ (ver # 2 /\ level_active /\ level.reason = Reason(ver, "stop") /\ fuel > 0
             /\ parts = 0 /\ StartCommand /\ msg' \notin {"Already moving"})
          => (driving' /\ ~level_active' /\ parts' = parts)]_vars

\* a click in an outside view that lands on no zombie (v2: on nothing at all, a
\* click on a pickup collects it)
Miss ==
    \/ \E num \in {1, 3} : _on_canvas_click(FALSE, num)
    \/ shoot_zombie_at(FALSE)
    \/ handle_outside_click("none")

\* the zombies alive in each outside view
ZombieSets(sp) == [v \in OutViews |-> sp[v]["zombie"]]

\* C14: a shot that does not kill, because the click lands on no zombie of the
\* current view or because the ledger holds less than the weapon's cost (one shell,
\* MG_AMMO_COST ammo), spends nothing and removes no zombie: a step that changes
\* shells, ammo or a view's zombies is neither of these
C14_FailedShotIsFree ==
    [][(shells' # shells \/ ammo' # ammo \/ ZombieSets(sprites') # ZombieSets(sprites)
          \/ level'.zombies # level.zombies)
         => /\ ~Miss
            /\ ~(shells < SHELLS_PER_SHOT /\ CannonShot)
            /\ ~(ammo < MG_AMMO_COST /\ MgBurst)]_vars

\* a burst at a zombie in sight was refused for want of ammo
C14_Witness ==
    /\ msg = "Not enough ammo"
    /\ ammo < MG_AMMO_COST /\ level_active
    /\ view \in OutViews /\ sprites[view]["zombie"] > 0

(***************************************************************************)
(* Timed runs: the initial state of each prototype with its real fuel and  *)
(* a breakdown deadline drawn from the real window; seconds pass and no    *)
(* command is given                                                        *)
(***************************************************************************)
\* a second in which no handler changes anything: v1 update() behind a popup or
\* with the tank stopped, v2 update_driving() returning at once, v3..v5 no fuel
\* timer pending
QuietSecond ==
    CASE ver = 1 -> ~(msg = "" /\ driving)
      [] ver = 2 -> game_over \/ ~(driving /\ ~level_active)
      [] OTHER   -> \A i \in TimerIds : pending[i] # "fuel"

idle_tick ==
    /\ Timed /\ clock + TickMs <= Horizon
    /\ QuietSecond
    /\ clock' = clock + TickMs
    /\ UNCHANGED <<ver, fuel_accum, ledger, flags, level, sprites, view, timers, game_over,
                   scavenge_mode, msg, scav, levels, breakdown_at>>

\* the tank driving with f fuel, the clock at 0, and the message shown
DrivingWith(f, shown) ==
    /\ fuel = f
    /\ shells = StartShells
    /\ guns = StartGuns
    /\ crew = StartCrew
    /\ parts = 0
    /\ ammo = (IF ver \in {4, 5} THEN StartAmmo ELSE 0)
    /\ driving = TRUE
    /\ level_active = FALSE
    /\ engine_broken = FALSE
    /\ out_of_fuel = FALSE
    /\ level = NoLevel
    /\ sprites = NoSprites
    /\ view = "DRIVER"
    /\ fuel_tick_after_id = (IF Tk(ver) THEN 1 ELSE 0)
    /\ breakdown_after_id = (IF Tk(ver) THEN 2 ELSE 0)
    /\ pending = (IF Tk(ver) THEN [NoPending EXCEPT ![1] = "fuel", ![2] = "breakdown"]
                  ELSE NoPending)
    /\ game_over = FALSE
    /\ scavenge_mode = FALSE
    /\ msg = shown
    /\ scav = NoScav
    /\ levels = 0
    /\ clock = 0
    /\ fuel_accum = 0

InitClock ==
    /\ ver \in Versions
    /\ DrivingWith(STARTING_FUEL, "")
    /\ breakdown_at \in BreakdownDelays

NextClock ==
    \/ \E i \in TimerIds : _fuel_tick(i)
    \/ \E i \in TimerIds : _trigger_breakdown_level(i)
    \/ \E due \in BOOLEAN : update(TickMs, due)
    \/ \E due \in BOOLEAN : update_driving(TickMs, due)
    \/ idle_tick

SpecClock == InitClock /\ [][NextClock]_vars

\* C15: from the initial state (driving, fuel = STARTING_FUEL, one unit burnt a
\* second: every prototype but v2) ScenarioTicks one-second ticks without a command bring fuel to exactly
\* 0, never below, and leave an active level whose reason is fuel depletion
C15_TicksRunTheTankDry ==
    /\ fuel >= 0
    /\ (ver # 2 /\ clock = Horizon)
          => /\ fuel = 0
             /\ level_active /\ ~driving
             /\ LevelReason(level, msg) = Reason(ver, "fuel")

\* the units of fuel a second of driving costs
BurnRate == IF ver = 2 THEN 2 ELSE 1

\* C15 as amended: from the initial state (driving, fuel = STARTING_FUEL)
\* ScenarioTicks one-second ticks without a command never take fuel below 0 and
\* leave the tank stopped in an active level: a breakdown level holding the fuel
\* not burnt before the deadline, or, when the fuel runs out no later than the
\* deadline comes, a fuel-depletion level with fuel exactly 0
C15_TicksEndInALevel ==
    /\ fuel >= 0
    /\ clock = Horizon => (level_active /\ ~driving)
    /\ level_active =>
         \/ /\ LevelReason(level, msg) = Reason(ver, "fuel")
            /\ fuel = 0
            /\ BurnRate * (breakdown_at \div 1000) >= STARTING_FUEL
         \/ /\ LevelReason(level, msg) = Reason(ver, "breakdown")
            /\ fuel > 0
            /\ fuel \in {STARTING_FUEL - BurnRate * (breakdown_at \div 1000),
                         STARTING_FUEL - BurnRate * (breakdown_at \div 1000 - 1)}

\* the ticks have run, the fuel ran out before the breakdown was due
C15_Witness ==
    /\ clock = Horizon
    /\ fuel = 0 /\ level_active
    /\ LevelReason(level, msg) = Reason(ver, "fuel")

\* the fuel cans, shells, parts and ammo boxes left in the level
PoolItems(lv, sp) ==
    ItemsInPool(lv, sp, "fuel") + ItemsInPool(lv, sp, "shell")
      + ItemsInPool(lv, sp, "part") + ItemsInPool(lv, sp, "ammo")

\* C16: a scavenge asked for in an active level whose pool holds no fuel can, shell,
\* part or ammo box is refused: no scavenger is sent, so no survival is drawn, and
\* crew and guns stay as they are
C16_NothingToScavenge ==
    [][(level_active /\ PoolItems(level, sprites) = 0)
         => /\ ~scav'.done
            /\ \A approach \in Approaches, give_gun \in BOOLEAN :
                 ScavengeCommand(approach, give_gun) => (crew' = crew /\ guns' = guns)]_vars

\* a click into an outside view, whatever it lands on
ShootCommand ==
    \/ \E onZombie \in BOOLEAN, num \in {1, 3} : _on_canvas_click(onZombie, num)
    \/ \E onZombie \in BOOLEAN : shoot_zombie_at(onZombie)
    \/ \E target \in Kinds \cup {"none"} : handle_outside_click(target)

\* C17: while the tank is driving, with no level active, a shoot, scavenge or repair
\* command changes no ledger counter, nothing in the pool and nothing of the level
\* state: a step that does change one of them is none of these commands
C17_NoLevelCommandsWhileDriving ==
    [][(driving /\ ~level_active
          /\ (ledger' # ledger \/ sprites' # sprites \/ level' # level \/ flags' # flags))
         => /\ ~ShootCommand
            /\ ~FixCommand
            /\ \A approach \in Approaches, give_gun \in BOOLEAN :
                 ~ScavengeCommand(approach, give_gun)]_vars

\* no fuel tick and no breakdown is scheduled
NoTimerRunning(p) == \A i \in TimerIds : p[i] = ""

\* C18: an active level is left for driving only by an accepted start command; a
\* repair that succeeds clears engine_broken and spends a part but leaves the tank
\* stopped, the level active and no fuel or breakdown timer running; scavenging and
\* shooting never resume driving
C18_OnlyStartResumesDriving ==
    [][/\ (level_active /\ (driving' \/ ~level_active')) => StartCommand
       /\ (level_active /\ engine_broken /\ ~engine_broken')
             => /\ FixCommand
                /\ parts' = parts - 1
                /\ ~driving' /\ level_active'
                /\ NoTimerRunning(pending')]_vars

\* the engine has just been repaired, and the tank stands
C18_Witness ==
    /\ msg \in {"Engine fixed", "Engine repaired"}
    /\ ~engine_broken /\ level_active /\ ~driving
    /\ NoTimerRunning(pending)

\* a tick that finds the breakdown due: v1, v2 the deadline has passed in this
\* frame, v3..v5 the fuel tick runs while the breakdown timer is still to run
DueTick ==
    \/ \E dt \in FrameLengths : update(dt, TRUE)
    \/ \E dt \in FrameLengths : update_driving(dt, TRUE)
    \/ \E i \in TimerIds : _fuel_tick(i) /\ \E j \in TimerIds : pending[j] = "breakdown"

\* C19: a tick in which fuel reaches 0 while the breakdown is due as well starts
\* exactly one level, and its reason is the fuel, not the breakdown
C19_FuelBeforeBreakdown ==
    [][(fuel > 0 /\ fuel' = 0 /\ DueTick)
         => /\ levels' = levels + 1
            /\ level_active' /\ ~driving'
            /\ LevelReason(level', msg') = Reason(ver, "fuel")
            /\ NoTimerRunning(pending')]_vars

\* the first drive ended with the tank run dry, and nothing else is scheduled
C19_Witness ==
    /\ levels = 1 /\ level_active /\ fuel = 0
    /\ LevelReason(level, msg) = Reason(ver, "fuel")
    /\ NoTimerRunning(pending)
    /\ crew = StartCrew /\ parts = 0 /\ ~scav.done

\* what a kill with the weapon w debits, and nothing else of the ledger
Debits(w) ==
    /\ shells' = shells - (IF w = "cannon" THEN 1 ELSE 0)
    /\ ammo' = ammo - (IF w = "mg" THEN 33 ELSE 0)
    /\ UNCHANGED <<fuel, guns, crew, parts>>

\* one zombie leaves the view looked through
OneLessInView == sprites'[view]["zombie"] = sprites[view]["zombie"] - 1

\* the zombies of the other outside views stay
OtherViewsKeep ==
    \A v \in OutViews \ {view} : sprites'[v]["zombie"] = sprites[v]["zombie"]

\* v1: every outside view shows the zombies of the pool, each of the other views
\* loses one as well
OtherViewsFollow ==
    \A v \in OutViews \ {view} :
        sprites'[v]["zombie"] = Max(0, sprites[v]["zombie"] - 1)

Drawn(kind) ==
    CASE kind = "part"   -> DrawParts(ver)
      [] kind = "fuel"   -> DrawFuelCans(ver)
      [] kind = "shell"  -> DrawShells(ver)
      [] kind = "zombie" -> DrawZombies(ver)
      [] kind = "ammo"   -> DrawAmmoBoxes(ver)

\* the level counter of a kind (v1 LevelPool, v3..v5 LevelState)
Counter(lv, kind) ==
    CASE kind = "part"   -> lv.parts
      [] kind = "fuel"   -> lv.fuel_cans
      [] kind = "shell"  -> lv.shells
      [] kind = "zombie" -> lv.zombies
      [] kind = "ammo"   -> lv.ammo_boxes

\* the tank stopped in a level full of things, with p parts in the ledger; levels
\* counts the levels started from here on
Stranded(cause, p) ==
    LET na == IF ver \in {4, 5} THEN LootItems ELSE 0
        pool == [reason |-> Reason(ver, cause), parts |-> LootItems, fuel_cans |-> LootItems,
                 shells |-> LootItems, zombies |-> LootItems, ammo_boxes |-> na]
        lies == [part |-> "OUT_DRIVER", fuel |-> "OUT_LEFT", shell |-> "OUT_RIGHT",
                 zombie |-> "OUT_LEFT", ammo |-> "OUT_DRIVER"]
    IN
    /\ fuel = StartFuel
    /\ shells = StartShells
    /\ guns = StartGuns
    /\ crew = StartCrew
    /\ parts = p
    /\ ammo = (IF ver \in {4, 5} THEN StartAmmo ELSE 0)
    /\ driving = FALSE
    /\ level_active = TRUE
    /\ engine_broken = (IF Tk(ver) THEN cause = "breakdown" ELSE TRUE)
    /\ out_of_fuel = FALSE
    /\ level = (IF ver = 2 THEN NoLevel ELSE pool)
    /\ sprites = (IF ver = 1 THEN gen_outside_sprites_for_view(pool)
                  ELSE [v \in OutViews |->
                          [k \in Kinds |-> IF v = lies[k] THEN Counter(pool, k) ELSE 0]])
    /\ view = "DRIVER"
    /\ fuel_tick_after_id = 0
    /\ breakdown_after_id = 0
    /\ pending = NoPending
    /\ game_over = FALSE
    /\ scavenge_mode = FALSE
    /\ msg = ""
    /\ scav = NoScav
    /\ levels = 0
    /\ clock = 0
    /\ breakdown_at = 0
    /\ fuel_accum = 0

InitRelevel ==
    /\ ver \in Versions
    /\ \E cause \in {"breakdown", "stop"}, p \in 0..SpareParts : Stranded(cause, p)

NextRelevel ==
    \/ _fix_engine
    \/ attempt_fix_engine
    \/ attempt_fix_engine_v2
    \/ open_scavenge_menu_v2
    \/ _driver_start
    \/ attempt_start
    \/ attempt_start_driving
    \/ \E i \in TimerIds : _fuel_tick(i)
    \/ \E i \in TimerIds : _trigger_breakdown_level(i)
    \/ \E dt \in FrameLengths, due \in BOOLEAN : update(dt, due)
    \/ \E dt \in FrameLengths, due \in BOOLEAN : update_driving(dt, due)
    \/ _driver_stop
    \/ attempt_stop
    \/ stop_driving_now
    \/ close_popup
    \/ \E view_key \in Views(ver) : _show_view(view_key)

SpecRelevel == InitRelevel /\ [][NextRelevel]_vars

\* the views hold a fresh draw and nothing more, and sum to the level counters
\* (v2 keeps no counters)
FreshInViews(lv, sp) ==
    \A kind \in Kinds :
        /\ _count_remaining_items(sp, kind) \in Drawn(kind)
        /\ ver # 2 => _count_remaining_items(sp, kind) = Counter(lv, kind)

\* v1: the pool is a fresh draw and every outside view pictures it: all its zombies,
\* and markers of an item kind, no more than there are items, exactly when there
\* are some
PicturedInEveryView(lv, sp) ==
    \A kind \in Kinds :
        /\ Counter(lv, kind) \in Drawn(kind)
        /\ \A v \in OutViews :
            /\ sp[v][kind] <= Counter(lv, kind)
            /\ sp[v][kind] > 0 <=> Counter(lv, kind) > 0
            /\ kind = "zombie" => sp[v][kind] = Counter(lv, kind)

\* C21: right after any level start the items and zombies in the outside views are
\* exactly the freshly drawn pool: nothing of an earlier level remains, the counts
\* of each kind over the views sum to the new level counters, and a pending
\* scavenge selection is cleared
C21_LevelStartsAfresh ==
    [][levels' = levels + 1
         => (FreshInViews(level', sprites') /\ ~scavenge_mode')]_vars

\* C21 as amended: right after any level start nothing of an earlier level remains
\* and a pending scavenge selection is cleared; in v2..v5 the items and zombies in
\* the outside views are exactly the fresh draw, the counts of each kind over the
\* views summing to the new level counters (v3..v5); in v1 the pool counters are the
\* fresh draw and each outside view pictures that one pool, showing every zombie of
\* it and markers for the item kinds it holds
C21_LevelStartsAfreshOrPictured ==
    [][levels' = levels + 1
         => /\ IF ver = 1 THEN PicturedInEveryView(level', sprites')
                          ELSE FreshInViews(level', sprites')
            /\ ~scavenge_mode']_vars

\* a level has started over what the last one left lying
C21_Witness ==
    /\ levels = 1 /\ level_active /\ ~driving
    /\ \A kind \in {"part", "fuel", "zombie"} :
         \A v \in OutViews : sprites[v][kind] < LootItems

\* ceil(n * f) for the loot fraction f of an approach
CeilOfFraction(n, a) == (n * FracNum(a) + FracDen(a) - 1) \div FracDen(a)

\* C22: a surviving scavenge in a pool of N >= 1 items takes at least one item and
\* at most max(1, ceil(N * f)), f the loot fraction of the approach (1/3 quick, 1/2
\* moderate, 1 greedy), and never more than N
C22_TakeWithinTheFraction ==
    [][(scav'.done /\ scav'.survived /\ PoolItems(level, sprites) >= 1)
         => LET N == PoolItems(level, sprites)
                taken == N - PoolItems(level', sprites')
            IN /\ taken >= 1
               /\ taken <= Max(1, CeilOfFraction(N, scav'.approach))
               /\ taken <= N]_vars

\* a survivor of a moderate scavenge has brought back half of the full pool
C22_Witness ==
    /\ scav.done /\ scav.survived /\ scav.approach = "moderate"
    /\ crew = StartCrew /\ guns = StartGuns
    /\ level.parts + level.fuel_cans + level.shells = 3 * LootItems - CeilOfFraction(3 * LootItems, "moderate")
    /\ parts + shells = CeilOfFraction(3 * LootItems, "moderate")

\* C23: fuel, shells, parts and ammo are credited only by a surviving scavenge: no
\* other command or click, a click on an item in an outside view among them, and no
\* tick ever increases one of these counters
C23_OnlyScavengeCredits ==
    [][(fuel' > fuel \/ shells' > shells \/ parts' > parts \/ ammo' > ammo)
         => (scav'.done /\ scav'.survived)]_vars

\* C24: each item a surviving scavenger brings back yields by its kind: a shell item
\* exactly 1 shell, a part exactly 1 part, an ammo box exactly AMMO_PER_BOX = 100
\* ammo, a fuel can between FUEL_CAN_MIN = 10 and FUEL_CAN_MAX = 100 fuel; so taking
\* k shell items raises shells by exactly k
C24_YieldByKind ==
    [][(scav'.done /\ scav'.survived) =>
         LET gone(kind) == ItemsInPool(level, sprites, kind)
                             - ItemsInPool(level', sprites', kind)
         IN /\ shells' - shells = gone("shell")
            /\ parts' - parts = gone("part")
            /\ ammo' - ammo = 100 * gone("ammo")
            /\ fuel' - fuel >= 10 * gone("fuel")
            /\ fuel' - fuel <= 100 * gone("fuel")]_vars

(***************************************************************************)
(* The first seconds of a drive, frame by frame: the tank sets off with    *)
(* StartFuel and the breakdown as far away as it can be; the pygame loops  *)
(* run frames of any length, the Tkinter timer ticks every second          *)
(***************************************************************************)
InitFrames ==
    /\ ver \in Versions
    /\ DrivingWith(StartFuel, "")
    /\ breakdown_at = TickMs * BREAKDOWN_MAX_SEC

NextFrames ==
    \/ \E dt \in FrameLengths, due \in BOOLEAN : update(dt, due)
    \/ \E dt \in FrameLengths, due \in BOOLEAN : update_driving(dt, due)
    \/ \E i \in TimerIds : _fuel_tick(i)

SpecFrames == InitFrames /\ [][NextFrames]_vars

\* C25: while the tank drives the fuel consumed is the rate times the time driven,
\* in whole units, however the time is divided into ticks: frames of 1/60 s and one
\* frame of 1 s over the same second burn the same
C25_BurnIsRateTimesTime ==
    driving => StartFuel - fuel = (BurnRate * clock) \div 1000

\* C26: in every reachable state the tank drives exactly when no level is active
\* (v1 moving, in_level; v2 driving, level_active; v3..v5 driving, level.active),
\* and engine_broken is set only while a level is active
C26_DrivingIffNoLevel ==
    /\ driving <=> ~level_active
    /\ engine_broken => level_active

\* the tank drives again after a level it stood in
C26_Witness ==
    /\ levels = 1 /\ driving /\ ~level_active /\ ~engine_broken
    /\ msg \in {"", "You start the engine", "Moving again"}

StopCommand == _driver_stop \/ attempt_stop \/ stop_driving_now

\* a fuel tick, a breakdown callback or a frame of the pygame loops
TickStep ==
    \/ \E i \in TimerIds : _fuel_tick(i)
    \/ \E i \in TimerIds : _trigger_breakdown_level(i)
    \/ \E dt \in FrameLengths, due \in BOOLEAN : update(dt, due)
    \/ \E dt \in FrameLengths, due \in BOOLEAN : update_driving(dt, due)

\* C27: a level starts only from driving: a stop command, a fuel tick or a
\* breakdown callback that comes while a level is active changes nothing, so the
\* pool, the reason and engine_broken of an active level are never regenerated or
\* overwritten before driving has resumed
C27_NoLevelStartInALevel ==
    [][level_active
         => /\ levels' = levels
            /\ (StopCommand \/ TickStep)
                  => UNCHANGED <<ledger, flags, level, sprites, timers, levels>>
            /\ level_active'
                  => /\ level'.reason = level.reason
                     /\ engine_broken' => engine_broken
                     /\ \A kind \in Kinds :
                          /\ _count_remaining_items(sprites', kind)
                               <= _count_remaining_items(sprites, kind)
                          /\ ver # 2 => Counter(level', kind) <= Counter(level, kind)]_vars

\* a stop was asked for in a level that could still be followed by another
C27_Witness ==
    /\ msg = "Already stopped"
    /\ level_active /\ ~driving /\ levels < MaxLevels
    /\ level.parts = LootItems

\* the callbacks of a handler that are scheduled
Scheduled(p, handler) == {i \in TimerIds : p[i] = handler}

\* C28: in v3..v5, under every interleaving of start and stop commands and timer
\* callbacks, at most one fuel tick and at most one breakdown callback are pending,
\* and none while a level is active; so stop/start cycles never make the fuel burn
\* faster than one tick a second
C28_OneTimerOfEachKind ==
    Tk(ver) => /\ Cardinality(Scheduled(pending, "fuel")) <= 1
               /\ Cardinality(Scheduled(pending, "breakdown")) <= 1
               /\ level_active => NoTimerRunning(pending)
               /\ driving => /\ pending[fuel_tick_after_id] = "fuel"
                             /\ pending[breakdown_after_id] \in {"breakdown", ""}

\* the tank drives again after a stop and a start, one timer of each kind running
C28_Witness ==
    /\ Tk(ver) /\ levels = 1 /\ driving
    /\ Cardinality(Scheduled(pending, "fuel")) = 1
    /\ Cardinality(Scheduled(pending, "breakdown")) = 1

\* C29: whenever the tank drives, fuel > 0: the tick that takes the fuel to 0 starts
\* a level in the same step and no start is accepted on an empty tank, so driving
\* with fuel = 0 is never reached
C29_NeverDrivingOnEmpty ==
    /\ driving => fuel > 0
    /\ fuel = 0 => (level_active /\ ~driving)

\* a start on an empty tank, the engine in order, was refused
C29_Witness ==
    /\ msg = "No fuel"
    /\ fuel = 0 /\ ~engine_broken /\ ~driving /\ level_active

(***************************************************************************)
(* Driving with no command given: the tank has set off, from construction  *)
(* or, in v1, from a level whose start popup still stands; every second a  *)
(* tick or a frame is delivered                                            *)
(***************************************************************************)
InitLive ==
    /\ ver \in Versions
    /\ \E shown \in (IF ver = 1 THEN {"", "You start the engine"} ELSE {""}) :
         DrivingWith(STARTING_FUEL, shown)
    /\ breakdown_at \in BreakdownDelays

NextLive ==
    \/ \E i \in TimerIds : _fuel_tick(i)
    \/ \E i \in TimerIds : _trigger_breakdown_level(i)
    \/ \E due \in BOOLEAN : update(TickMs, due)
    \/ \E due \in BOOLEAN : update_driving(TickMs, due)

\* the Tkinter main loop runs a timer that is due, the pygame loop runs its frames
SpecLive == InitLive /\ [][NextLive]_vars /\ WF_vars(NextLive)

\* C30: driving never goes on forever: from any driving state, with ticks and timer
\* callbacks delivered and no command given, a level becomes active, by the fuel
\* running out or by the breakdown deadline, which is at most the window's maximum
C30_DrivingEndsInALevel ==
    driving ~> level_active

\* C30 as amended: from any driving state in which the game runs (in v1: no popup
\* is open, update() returns at once behind one until the player closes it), with
\* ticks and timer callbacks delivered and no command given, a level becomes active
C30_RunningDriveEndsInALevel ==
    (driving /\ (ver = 1 => msg = "")) ~> level_active

\* a drive ended at its breakdown deadline
C30_Witness ==
    /\ level_active /\ ~driving /\ levels = 1
    /\ LevelReason(level, msg) = Reason(ver, "breakdown")
    /\ clock >= breakdown_at /\ clock <= breakdown_at + TickMs
    /\ fuel > 0

====
